---------------------------- MODULE Spec2Model ----------------------------
(***************************************************************************)
(* Model of the car-offer bot: the two listing normalizers (auto.ru and   *)
(* drom.ru), the Car record, the VAT adjustment and the callback handlers  *)
(* of the chat front-end.                                                  *)
(*                                                                         *)
(* Text is modelled as a sequence of one-character strings, so that the    *)
(* string operations of the code (strip, replace, split, startswith, the   *)
(* digit filter, int(), number formatting) are computed and not assumed.   *)
(* NBSP stands for the character U+00A0. Russian text of the source is     *)
(* written in Latin transliteration ("k", "m" are the letters of the unit  *)
(* "km" of a mileage, "RUB" is the rouble sign).                           *)
(***************************************************************************)
EXTENDS Integers, Sequences, FiniteSets, TLC

VARIABLES
    USE_SELENIUM,         \* settings.py: app_settings.USE_SELENIUM (truthiness)
    user_cars,            \* main.py: user_cars, user id -> Car
    user_media_messages,  \* main.py: user_media_messages, user id -> message ids
    extracted,            \* history: the price of user_cars[u] as it was extracted
    vat_count,            \* history: VAT applications on user_cars[u] since extraction
    last,                 \* what the last handler run did (answers, offer, exception)
    url,                  \* the URL handed to a normalizer
    content,              \* the page markup handed to a normalizer
    result                \* what the normalizer returned or raised

vars == <<USE_SELENIUM, user_cars, user_media_messages, extracted, vat_count,
          last, url, content, result>>

botVars == <<USE_SELENIUM, user_cars, user_media_messages, extracted, vat_count, last>>
parseVars == <<url, content, result>>

-----------------------------------------------------------------------------
(* Text *)

NBSP == "nbsp"
Digits == {"0", "1", "2", "3", "4", "5", "6", "7", "8", "9"}
\* Characters str.strip() removes.
Whitespace == {" ", NBSP}

IsDigit(c) == c \in Digits

DigitVal(c) ==
    CASE c = "0" -> 0 [] c = "1" -> 1 [] c = "2" -> 2 [] c = "3" -> 3
      [] c = "4" -> 4 [] c = "5" -> 5 [] c = "6" -> 6 [] c = "7" -> 7
      [] c = "8" -> 8 [] c = "9" -> 9

DigitChar(d) ==
    CASE d = 0 -> "0" [] d = 1 -> "1" [] d = 2 -> "2" [] d = 3 -> "3"
      [] d = 4 -> "4" [] d = 5 -> "5" [] d = 6 -> "6" [] d = 7 -> "7"
      [] d = 8 -> "8" [] d = 9 -> "9"

StartsWith(s, p) == Len(s) >= Len(p) /\ SubSeq(s, 1, Len(p)) = p

Drop(s, n) == SubSeq(s, n + 1, Len(s))

RECURSIVE LStrip(_)
LStrip(s) == IF s # <<>> /\ Head(s) \in Whitespace THEN LStrip(Tail(s)) ELSE s

RECURSIVE RStrip(_)
RStrip(s) ==
    IF s # <<>> /\ s[Len(s)] \in Whitespace THEN RStrip(SubSeq(s, 1, Len(s) - 1)) ELSE s

\* str.strip()
Strip(s) == RStrip(LStrip(s))

\* str.replace(pat, rep), pat non-empty: leftmost non-overlapping occurrences.
RECURSIVE Replace(_, _, _)
Replace(s, pat, rep) ==
    IF s = <<>> THEN <<>>
    ELSE IF StartsWith(s, pat) THEN rep \o Replace(Drop(s, Len(pat)), pat, rep)
    ELSE <<Head(s)>> \o Replace(Tail(s), pat, rep)

\* Index of the first occurrence of pat in s, 0 when there is none.
RECURSIVE FindFrom(_, _, _)
FindFrom(s, pat, i) ==
    IF i + Len(pat) - 1 > Len(s) THEN 0
    ELSE IF SubSeq(s, i, i + Len(pat) - 1) = pat THEN i
    ELSE FindFrom(s, pat, i + 1)

Find(s, pat) == FindFrom(s, pat, 1)

Contains(s, pat) == Find(s, pat) # 0

\* str.split(sep): the sequence of segments.
RECURSIVE Split(_, _)
Split(s, sep) ==
    LET i == Find(s, sep)
    IN  IF i = 0 THEN <<s>>
        ELSE <<SubSeq(s, 1, i - 1)>> \o Split(Drop(s, i + Len(sep) - 1), sep)

\* Index of the last occurrence of the character c in s, 0 when there is none.
RECURSIVE RFind(_, _)
RFind(s, c) ==
    IF s = <<>> THEN 0
    ELSE IF s[Len(s)] = c THEN Len(s)
    ELSE RFind(SubSeq(s, 1, Len(s) - 1), c)

\* str.rsplit(c, 1)
RSplit1(s, c) ==
    LET i == RFind(s, c)
    IN  IF i = 0 THEN <<s>> ELSE <<SubSeq(s, 1, i - 1), Drop(s, i)>>

\* int() of a non-empty sequence of digits.
RECURSIVE DigitsToInt(_)
DigitsToInt(ds) ==
    IF ds = <<>> THEN 0
    ELSE DigitsToInt(SubSeq(ds, 1, Len(ds) - 1)) * 10 + DigitVal(ds[Len(ds)])

AllDigits(s) == \A i \in 1..Len(s) : IsDigit(s[i])

\* Whether int(s) succeeds, for the characters of this model: a non-empty run of
\* digits (surrounding whitespace is accepted by int()).
IntParses(s) == Strip(s) # <<>> /\ AllDigits(Strip(s))

IntOf(s) == DigitsToInt(Strip(s))

\* str(v) for v >= 0.
RECURSIVE IntToDigits(_)
IntToDigits(v) ==
    IF v < 10 THEN <<DigitChar(v)>>
    ELSE IntToDigits(v \div 10) \o <<DigitChar(v % 10)>>

\* The "," option of format(): a comma before every group of three digits
\* counted from the right.
RECURSIVE GroupThousands(_)
GroupThousands(ds) ==
    IF Len(ds) <= 3 THEN ds
    ELSE GroupThousands(SubSeq(ds, 1, Len(ds) - 3)) \o <<",">>
         \o SubSeq(ds, Len(ds) - 2, Len(ds))


-----------------------------------------------------------------------------
(* src/schemas.py: Car *)

\* Words no operation of the code looks inside are single tokens of a text.
NEW_YEAR == <<"Novyy god">>
NEW_CAR == <<"Novyy avtomobil">>
NEW_ENGINE == <<"Novyy dvigatel">>
NEW_TRANSMISSION == <<"Novaya transmissiya">>
NEW_COLOR == <<"Novyy tsvet">>
NEW_DRIVE == <<"Novyy privod">>
NO_URL == <<" Net adressa">>

\* The int 0 that Car.price defaults to and _parse_price returns for a missing
\* node: the one price value that is not a str.
PyInt0 == <<"<int 0>">>
\* None, as the id of a Car built without one.
PyNone == <<"<None>">>

Fields == {"year", "mileage", "engine", "transmission", "color", "drive"}

\* The defaults of the dataclass fields.
CarDefault(f) ==
    CASE f = "year" -> NEW_YEAR
      [] f = "mileage" -> NEW_CAR
      [] f = "engine" -> NEW_ENGINE
      [] f = "transmission" -> NEW_TRANSMISSION
      [] f = "color" -> NEW_COLOR
      [] f = "drive" -> NEW_DRIVE

MileageNewBelow == 500

\* The text __post_init__ hands to int().
MileageDigits(mileage) ==
    Replace(Replace(Replace(mileage, <<NBSP>>, <<>>), <<" ">>, <<>>), <<"k", "m">>, <<>>)

\* Mutant: the comparison is <= 500.
PostInitInclusive(car) ==
    LET t == MileageDigits(car.mileage)
    IN  IF IntParses(t) /\ IntOf(t) <= MileageNewBelow
        THEN [car EXCEPT !.mileage = NEW_CAR]
        ELSE car

\* Car.__post_init__: a ValueError of int() leaves the mileage as it is.
PostInit(car) ==
    LET t == MileageDigits(car.mileage)
    IN  IF IntParses(t) /\ IntOf(t) < MileageNewBelow
        THEN [car EXCEPT !.mileage = NEW_CAR]
        ELSE car

\* Car(...): the generated __init__ followed by __post_init__.
Car(id, name, price, year, mileage, engine, transmission, color, drive, images, car_url) ==
    PostInit([id |-> id, name |-> name, price |-> price, year |-> year,
              mileage |-> mileage, engine |-> engine, transmission |-> transmission,
              color |-> color, drive |-> drive, images |-> images, url |-> car_url])

\* A placeholder where a result carries no Car.
NullCar ==
    [id |-> PyNone, name |-> <<>>, price |-> PyInt0, year |-> <<>>, mileage |-> <<>>,
     engine |-> <<>>, transmission |-> <<>>, color |-> <<>>, drive |-> <<>>,
     images |-> <<>>, url |-> <<>>]

\* What a call returned: a Car, the empty list, None, or an exception raised.
Returned(car) == [kind |-> "car", car |-> car, exc |-> "-"]
ReturnedList == [kind |-> "list", car |-> NullCar, exc |-> "-"]
ReturnedNone == [kind |-> "none", car |-> NullCar, exc |-> "-"]
Raised(exc) == [kind |-> "raise", car |-> NullCar, exc |-> exc]
NotRun == [kind |-> "-", car |-> NullCar, exc |-> "-"]

-----------------------------------------------------------------------------
(* The DOM, as far as the selectors of the normalizers read it *)

\* An element a selector found (or did not find) and its get_text().
NoElement == [present |-> FALSE, text |-> <<>>]
Element(text) == [present |-> TRUE, text |-> text]

\* An <li> row of the attribute list: cells are the texts of its
\* div.CardInfoRow__cell children; its own get_text() is their concatenation.
NoRow == [present |-> FALSE, cells |-> <<>>]
Row(cells) == [present |-> TRUE, cells |-> cells]

RECURSIVE Concat(_)
Concat(ss) == IF ss = <<>> THEN <<>> ELSE Head(ss) \o Concat(Tail(ss))

RowElement(row) ==
    IF row.present THEN Element(Concat(row.cells)) ELSE NoElement

-----------------------------------------------------------------------------
(* src/strings.py *)

RUR == "RUB"
ITEM_YEAR == "CardInfoRow CardInfoRow_year"
ITEM_TRANSMISSION == "CardInfoRow CardInfoRow_transmission"
ITEM_ENGINE == "CardInfoRow CardInfoRow_engine"
ITEM_DRIVE == "CardInfoRow CardInfoRow_drive"
ITEM_COLOR == "CardInfoRow CardInfoRow_color"
ITEM_MILEAGE == "CardInfoRow CardInfoRow_kmAge"
NEW_ITEM_YEAR == "CardInfoGroupedRow CardInfoGroupedRow_year"
NEW_ITEM_TRANSMISSION == "CardInfoGroupedRow CardInfoGroupedRow_transmission"
NEW_ITEM_ENGINE == "CardInfoGroupedRow CardInfoGroupedRow_engine"
NEW_ITEM_DRIVE == "CardInfoGroupedRow CardInfoGroupedRow_drive"
NEW_ITEM_COLOR == "CardInfoGroupedRow CardInfoGroupedRow_color"
NEW_ITEM_MILEAGE == "CardInfoRow CardInfoRow_kmAge"

RowClasses ==
    {ITEM_YEAR, ITEM_TRANSMISSION, ITEM_ENGINE, ITEM_DRIVE, ITEM_COLOR, ITEM_MILEAGE,
     NEW_ITEM_YEAR, NEW_ITEM_TRANSMISSION, NEW_ITEM_ENGINE, NEW_ITEM_DRIVE,
     NEW_ITEM_COLOR, NEW_ITEM_MILEAGE}

-----------------------------------------------------------------------------
(* src/parser.py: the auto.ru normalizer *)

\* The labels _extract_text knows, in the order it tries them.
attribute_prefixes ==
    << <<"God vypuska">>, <<"Dvigatel">>, <<"Korobka">>, <<"Tsvet">>, <<"Privod">> >>

RECURSIVE StripPrefix(_, _)
StripPrefix(full_text, prefixes) ==
    IF prefixes = <<>> THEN full_text
    ELSE IF StartsWith(full_text, Head(prefixes))
         THEN Strip(Drop(full_text, Len(Head(prefixes))))
         ELSE StripPrefix(full_text, Tail(prefixes))

\* Mutant: a missing element yields the empty text instead of the default.
ExtractTextNoDefault(element, default, second_text) ==
    IF ~element.present THEN <<>>
    ELSE IF second_text THEN StripPrefix(Strip(element.text), attribute_prefixes)
    ELSE Strip(element.text)

\* parser._extract_text
ExtractText(element, default, second_text) ==
    IF ~element.present THEN default
    ELSE IF second_text THEN StripPrefix(Strip(element.text), attribute_prefixes)
    ELSE Strip(element.text)

\* parser._extract_attribute; container.find(tag, class_name) is the row the page
\* holds under that class.
ExtractAttribute(container, class_name, default, second_text) ==
    LET row == container.rows[class_name]
    IN  IF row.present
        THEN IF second_text
             THEN ExtractText(RowElement(row), default, TRUE)
             ELSE ExtractText(IF Len(row.cells) >= 2 THEN Element(row.cells[2])
                                                     ELSE NoElement,
                              default, FALSE)
        ELSE default

\* parser._parse_car_name
ParseCarName(name_content, default) ==
    IF ~name_content.present THEN default
    ELSE Strip(Split(Strip(name_content.text), <<",">>)[1])

\* parser._parse_price: the text before the first currency sign, or the int 0.
ParsePrice(price_content) ==
    IF ~price_content.present THEN PyInt0
    ELSE Split(Strip(price_content.text), <<RUR>>)[1]

\* str.lower() of a URL, token by token.
Lower(tok) == IF tok = "NEW" THEN "new" ELSE tok

LowerText(s) == [i \in 1..Len(s) |-> Lower(s[i])]

\* An image URL starts with the token "//" when it is protocol-relative.
IsProtocolRelative(u) == StartsWith(u, <<"//">>)

\* One div.ImageGalleryDesktop__itemContainer: srcset holds the candidates of the
\* img's srcset attribute, split at the commas and cut at the first space (<<>>: no
\* img or no srcset); style_url is the url(...) of the cover span's
\* background-image (<<>>: no span or no background-image).
\* The loop body of parse_content for one div: the URLs it appends.
ImageOfDiv(div) ==
    IF div.srcset # <<>> /\ Len(div.srcset) >= 2 /\ IsProtocolRelative(div.srcset[2])
    THEN << <<"https:">> \o div.srcset[2] >>
    ELSE IF div.style_url # <<>> /\ IsProtocolRelative(div.style_url)
              /\ Len(div.style_url) >= 2
         THEN << <<"https:">> \o div.style_url >>
         ELSE <<>>

RECURSIVE ImagesOfDivs(_)
ImagesOfDivs(divs) ==
    IF divs = <<>> THEN <<>> ELSE ImageOfDiv(Head(divs)) \o ImagesOfDivs(Tail(divs))

\* image_divs[:3]
GalleryLimit == 3

\* Mutant: the slice is not taken.
FirstNUncapped(s, n) == s

FirstN(s, n) == SubSeq(s, 1, IF Len(s) < n THEN Len(s) ELSE n)

\* The per-subtype tables of parse_content: field -> (class, default).
attributes(f) ==
    CASE f = "year" -> <<ITEM_YEAR, NEW_YEAR>>
      [] f = "mileage" -> <<ITEM_MILEAGE, NEW_CAR>>
      [] f = "engine" -> <<ITEM_ENGINE, NEW_ENGINE>>
      [] f = "transmission" -> <<ITEM_TRANSMISSION, NEW_TRANSMISSION>>
      [] f = "color" -> <<ITEM_COLOR, NEW_COLOR>>
      [] f = "drive" -> <<ITEM_DRIVE, NEW_DRIVE>>

new_attributes(f) ==
    CASE f = "year" -> <<NEW_ITEM_YEAR, NEW_YEAR>>
      [] f = "mileage" -> <<NEW_ITEM_MILEAGE, NEW_CAR>>
      [] f = "engine" -> <<NEW_ITEM_ENGINE, NEW_ENGINE>>
      [] f = "transmission" -> <<NEW_ITEM_TRANSMISSION, NEW_TRANSMISSION>>
      [] f = "color" -> <<NEW_ITEM_COLOR, NEW_COLOR>>
      [] f = "drive" -> <<NEW_ITEM_DRIVE, NEW_DRIVE>>

\* "new" in car_url.lower()
IsNewUrl(car_url) == Contains(LowerText(car_url), <<"new">>)

\* parser.parse_content. A page is
\*   [captcha, card_body, id, h1, price_new, price_used, rows, gallery]:
\* whether the markup contains "captcha", whether div.CardOfferBody exists, the
\* elements found under it, the <li> rows by class, and the gallery divs.
ParseContent(car_url, page) ==
    IF ~page.card_body THEN ReturnedList
    ELSE
        LET car_id == ExtractText(page.id, <<>>, FALSE)
            car_name == ParseCarName(page.h1, <<>>)
            is_new == IsNewUrl(car_url)
            new_price == ParsePrice(page.price_new)
            car_price ==
                IF is_new
                THEN IF new_price = PyInt0 THEN ParsePrice(page.price_used)
                                           ELSE new_price
                ELSE ParsePrice(page.price_used)
            car_data ==
                [f \in Fields |->
                    IF is_new
                    THEN ExtractAttribute(page, new_attributes(f)[1],
                                          new_attributes(f)[2], TRUE)
                    ELSE ExtractAttribute(page, attributes(f)[1],
                                          attributes(f)[2], FALSE)]
            image_urls == ImagesOfDivs(FirstN(page.gallery, GalleryLimit))
        IN  Returned(Car(car_id, car_name, car_price, car_data["year"],
                         car_data["mileage"], car_data["engine"],
                         car_data["transmission"], car_data["color"],
                         car_data["drive"], image_urls, car_url))

-----------------------------------------------------------------------------
(* src/parser_drom.py: the drom.ru normalizer *)

\* parser_drom._extract_text: the check for a missing element is commented out, so
\* element.get_text() on None raises AttributeError. Returns [ok, text].
DromExtractText(element) ==
    IF ~element.present THEN [ok |-> FALSE, text |-> <<>>]
    ELSE [ok |-> TRUE, text |-> Strip(element.text)]

\* parser_drom.clean_price
CleanPrice(text) == Strip(Replace(Replace(text, <<"&nbsp;">>, <<" ">>), <<"rub">>, <<>>))

\* The labels of the attribute table that parse_content knows.
KEY_ENGINE == <<"Dvigatel">>
KEY_POWER == <<"Moshchnost">>
KEY_MILEAGE == <<"Probeg">>
KEY_COLOR == <<"Tsvet">>
KEY_TRANSMISSION == <<"Korobka peredach">>
KEY_DRIVE == <<"Privod">>

\* val.replace(',\xa0nalog', '').replace('\xa0', ' ').strip()
DromCleanValue(val) ==
    Strip(Replace(Replace(val, <<",", NBSP, "nalog">>, <<>>), <<NBSP>>, <<" ">>))

\* One row of the table loop: car_data after the row, or the KeyError of
\* car_data["engine"] += ... when no engine row came before a power row.
\* acc is [data, exc]; data is the dict car_data.
DromRow(acc, row) ==
    IF acc.exc # "-" \/ ~(row.th.present /\ row.td.present) THEN acc
    ELSE
        LET key == Strip(row.th.text)
            val0 == Strip(row.td.text)
            val == IF key \in {KEY_POWER, KEY_MILEAGE} THEN DromCleanValue(val0) ELSE val0
            data == acc.data
        IN  CASE key = KEY_ENGINE -> [acc EXCEPT !.data = ("engine" :> val) @@ data]
              [] key = KEY_POWER ->
                    IF "engine" \in DOMAIN data
                    THEN [acc EXCEPT !.data =
                            ("engine" :> (data["engine"] \o <<",", " ">> \o val)) @@ data]
                    ELSE [acc EXCEPT !.exc = "KeyError"]
              [] key = KEY_MILEAGE -> [acc EXCEPT !.data = ("mileage" :> val) @@ data]
              [] key = KEY_COLOR -> [acc EXCEPT !.data = ("color" :> val) @@ data]
              [] key = KEY_TRANSMISSION ->
                    [acc EXCEPT !.data = ("transmission" :> val) @@ data]
              [] key = KEY_DRIVE -> [acc EXCEPT !.data = ("drive" :> val) @@ data]
              [] OTHER -> acc

RECURSIVE DromRows(_, _)
DromRows(acc, rows) ==
    IF rows = <<>> THEN acc ELSE DromRows(DromRow(acc, Head(rows)), Tail(rows))

\* find_all('a', limit=3)
DromGalleryLimit == 3

\* The href loop: an anchor without href is skipped, "//..." gets "https:".
RECURSIVE DromImages(_)
DromImages(hrefs) ==
    IF hrefs = <<>> THEN <<>>
    ELSE LET href == Head(hrefs)
         IN  (IF href = <<>> THEN <<>>
              ELSE IF IsProtocolRelative(href) THEN << <<"https:">> \o href >>
              ELSE <<href>>)
             \o DromImages(Tail(hrefs))

\* The keys parse_content reads from car_data when it builds the Car.
DromCarKeys == {"mileage", "engine", "transmission", "color", "drive"}

\* parser_drom.parse_content. A page is [captcha, og_title, h1, table, gallery]:
\* og_title is the meta tag with its content attribute, table is
\* [present, rows] with rows of [th, td], gallery is [present, hrefs].
DromParseContent(car_url, page) ==
    LET meta == page.og_title
        parts == Split(meta.text, <<",">>)
        head == RSplit1(Strip(Replace(parts[1], <<"Prodazha">>, <<>>)), " ")
        h1_text == DromExtractText(page.h1)
        loop == DromRows([data |-> <<>>, exc |-> "-"], page.table.rows)
        car_data == loop.data
        image_urls ==
            IF page.gallery.present
            THEN DromImages(FirstN(page.gallery.hrefs, DromGalleryLimit))
            ELSE <<>>
    IN  IF meta.present /\ Len(head) < 2 THEN Raised("IndexError")
        ELSE IF meta.present /\ Len(parts) < 2 THEN Raised("IndexError")
        ELSE IF ~meta.present /\ ~h1_text.ok THEN Raised("AttributeError")
        ELSE IF ~page.table.present THEN Raised("AttributeError")
        ELSE IF loop.exc # "-" THEN Raised(loop.exc)
        ELSE IF ~meta.present THEN Raised("UnboundLocalError")
        ELSE IF ~(DromCarKeys \subseteq DOMAIN car_data) THEN Raised("KeyError")
        ELSE Returned(Car(PyNone, head[1], CleanPrice(Strip(parts[2])), head[2],
                          car_data["mileage"], car_data["engine"],
                          car_data["transmission"], car_data["color"],
                          car_data["drive"], image_urls, car_url))

-----------------------------------------------------------------------------
(* The entry points: parse_response (auto.ru) and parse_response_drom *)

\* A response is the page record with what the fetch did: fetched (the request or
\* the browser delivered markup), status_ok (status code 200), captcha (the markup
\* contains "captcha" in any case) and pages_amount (children of the pagination
\* span that get_pages_amount counts).

\* parser.parse_response_with_selenium
ParseResponseWithSelenium(car_url, resp) ==
    IF ~resp.fetched THEN ReturnedNone
    ELSE IF resp.captcha THEN ReturnedNone
    ELSE ParseContent(car_url, resp)

\* parser.simple_parse_response and parser_drom.simple_parse_response (the same
\* text): get_html raises ConnectionError; each page of the pagination is parsed by
\* parse_content(content=...), a call without url, which raises TypeError.
SimpleParseResponse(car_url, resp) ==
    IF ~resp.fetched THEN Raised("ConnectionError")
    ELSE IF ~resp.status_ok THEN ReturnedNone
    ELSE IF resp.captcha THEN ReturnedNone
    ELSE IF resp.pages_amount = 0 THEN ReturnedList
    ELSE Raised("TypeError")

\* "if not car: return None": the empty list is falsy, a Car is not.
NoneIfFalsy(r) == IF r.kind = "list" THEN ReturnedNone ELSE r

\* parser.parse_response
ParseResponse(car_url, resp, use_selenium) ==
    NoneIfFalsy(IF use_selenium THEN ParseResponseWithSelenium(car_url, resp)
                                ELSE SimpleParseResponse(car_url, resp))

\* parser_drom.parse_response_with_selenium: the captcha check is commented out.
DromParseResponseWithSelenium(car_url, resp) ==
    IF ~resp.fetched THEN ReturnedNone
    ELSE DromParseContent(car_url, resp)

\* parser_drom.parse_response_drom
ParseResponseDrom(car_url, resp, use_selenium) ==
    NoneIfFalsy(IF use_selenium THEN DromParseResponseWithSelenium(car_url, resp)
                                ELSE SimpleParseResponse(car_url, resp))

-----------------------------------------------------------------------------
(* main.py: the price adjustment of handle_vat_click *)

\* "".join(c for c in car.price if c.isdigit())
CleanedPrice(price) == SelectSeq(price, IsDigit)

\* "{:,.0f}".format(n * 1.2): n * 1.2 rounded to the nearest integer. 6n/5 is
\* never half way between two integers, so the tie rule of the format plays no part.
TimesVatRounded(n) == (12 * n + 5) \div 10

\* Mutant: the product is truncated instead of rounded.
VatPriceTruncated(price) ==
    IF price = PyInt0 THEN [ok |-> FALSE, price |-> price]
    ELSE IF CleanedPrice(price) = <<>> THEN [ok |-> FALSE, price |-> price]
    ELSE [ok |-> TRUE,
          price |-> Replace(GroupThousands(IntToDigits(
                        (12 * DigitsToInt(CleanedPrice(price))) \div 10)),
                        <<",">>, <<" ">>)]

\* Mutant: a price whose digits denote zero is refused.
VatPricePositiveOnly(price) ==
    IF price = PyInt0 THEN [ok |-> FALSE, price |-> price]
    ELSE IF CleanedPrice(price) = <<>> \/ DigitsToInt(CleanedPrice(price)) = 0
    THEN [ok |-> FALSE, price |-> price]
    ELSE [ok |-> TRUE,
          price |-> Replace(GroupThousands(IntToDigits(
                        TimesVatRounded(DigitsToInt(CleanedPrice(price))))),
                        <<",">>, <<" ">>)]

\* The try block of handle_vat_click: iterating the int 0 raises TypeError, int("")
\* raises ValueError, and both leave car.price as it was.
VatPrice(price) ==
    IF price = PyInt0 THEN [ok |-> FALSE, price |-> price]
    ELSE IF CleanedPrice(price) = <<>> THEN [ok |-> FALSE, price |-> price]
    ELSE [ok |-> TRUE,
          price |-> Replace(GroupThousands(IntToDigits(
                        TimesVatRounded(DigitsToInt(CleanedPrice(price))))),
                        <<",">>, <<" ">>)]

-----------------------------------------------------------------------------
(* src/render.py: the offer compositor *)

\* "if len(matches) >= 2" and "matches[14]" of generate_test_svg.
MinMatches == 2
PhotoMatchIndex == 14

\* What can go wrong while an offer is made, one at a time: the template file
\* cannot be read, the photo cannot be downloaded, cairosvg cannot rasterize, a
\* font cannot be loaded, the bot API refuses the photo.
Faults == {"none", "template", "photo", "raster", "font", "send"}

\* generate_test_svg: every exception is caught and turned into the tuple
\* (None, None). matches is the number of xlink:href references of the template.
\* Returns [png, embedded]: whether a PNG stream was returned, and whether the
\* photo was put into the markup.
GenerateTestSvg(choice_image, nds, fault, matches) ==
    IF fault = "template" \/ fault = "photo" THEN [png |-> FALSE, embedded |-> FALSE]
    ELSE IF matches >= MinMatches /\ matches < PhotoMatchIndex + 1
    THEN [png |-> FALSE, embedded |-> FALSE]
    ELSE IF fault = "raster" THEN [png |-> FALSE, embedded |-> FALSE]
    ELSE [png |-> TRUE, embedded |-> matches >= MinMatches]

\* draw_car_info_on_image: TRUE when it returns the image. (None, None).seek
\* raises AttributeError, a missing font raises OSError, and car.price + " P"
\* raises TypeError when the price is the int 0.
DrawCarInfoOnImage(car, output, fault) ==
    output.png /\ fault # "font" /\ car.price # PyInt0

-----------------------------------------------------------------------------
(* main.py: the session maps and the handlers *)

\* alice and bob are allowed to use the bot, mallory is not.
Users == {"alice", "bob", "mallory"}
ALLOWED_USER_IDS == {"alice", "bob"}

\* What the bot tells the user.
MSG_DENIED == "access denied"
MSG_NOT_EXTRACTED == "could not extract data"
MSG_ERROR == "an error occurred"
MSG_CAR_INFO == "car info with photo keyboard"
ALERT_PHOTO_UNAVAILABLE == "photo unavailable"
ALERT_NO_CAR == "car data unavailable"
ALERT_INVALID_PRICE == "invalid price format"
ALERT_OFFER_FAILED == "could not generate offer, try again"
ANSWER_EMPTY == "(empty answer)"
ANSWER_SELECTED == "photo selected"

NoOffer ==
    [sent |-> FALSE, to |-> "-", photo |-> <<>>, nds |-> FALSE, embedded |-> FALSE,
     car |-> NullCar]

\* Mutant: the media ids of every user are dropped.
PopAll(m, u) == <<>>

\* dict.pop(u, None)
Pop(m, u) == [x \in DOMAIN m \ {u} |-> m[x]]

\* m[u] = v
Put(m, u, v) == (u :> v) @@ m

\* user_media_messages.get(u, [])
MediaOf(media, u) == IF u \in DOMAIN media THEN media[u] ELSE <<>>

\* send_car_media: one message per image of car.images[:3].
MediaIds(u, car) == [i \in 1..Len(FirstN(car.images, GalleryLimit)) |-> <<u, i>>]

\* What a handler run did: the new maps, the answers and replies in order, the
\* offer sent (if any) and whether an exception left the handler.
Outcome(cars, media, answers, offer, raised) ==
    [user_cars |-> cars, user_media_messages |-> media, answers |-> answers,
     offer |-> offer, raised |-> raised]

\* Mutant: process_car_url without check_user_access.
ProcessCarUrlOpen(cars, media, u, parsed, media_ok) ==
    IF parsed.kind = "raise"
    THEN Outcome(cars, media, <<MSG_ERROR>>, NoOffer, FALSE)
    ELSE IF parsed.kind # "car" \/ parsed.car.images = <<>>
    THEN Outcome(cars, media, <<MSG_NOT_EXTRACTED>>, NoOffer, FALSE)
    ELSE IF ~media_ok
    THEN Outcome(Put(cars, u, parsed.car), media, <<MSG_ERROR>>, NoOffer, FALSE)
    ELSE Outcome(Put(cars, u, parsed.car), Put(media, u, MediaIds(u, parsed.car)),
                 <<MSG_CAR_INFO>>, NoOffer, FALSE)

\* process_car_url after the parser has run: parsed is what parser_func(url) returned
\* or raised, media_ok whether send_media_group succeeded.
ProcessCarUrl(cars, media, u, parsed, media_ok) ==
    IF u \notin ALLOWED_USER_IDS
    THEN Outcome(cars, media, <<MSG_DENIED>>, NoOffer, FALSE)
    ELSE IF parsed.kind = "raise"
    THEN Outcome(cars, media, <<MSG_ERROR>>, NoOffer, FALSE)
    ELSE IF parsed.kind # "car" \/ parsed.car.images = <<>>
    THEN Outcome(cars, media, <<MSG_NOT_EXTRACTED>>, NoOffer, FALSE)
    ELSE IF ~media_ok
    THEN Outcome(Put(cars, u, parsed.car), media, <<MSG_ERROR>>, NoOffer, FALSE)
    ELSE Outcome(Put(cars, u, parsed.car), Put(media, u, MediaIds(u, parsed.car)),
                 <<MSG_CAR_INFO>>, NoOffer, FALSE)

\* Mutant: the index is not compared with the number of images.
HandlePhotoClickNoRange(cars, media, u, index) ==
    IF u \notin DOMAIN cars
    THEN Outcome(cars, media, <<ALERT_PHOTO_UNAVAILABLE>>, NoOffer, FALSE)
    ELSE Outcome(cars, media, <<ANSWER_SELECTED>>, NoOffer, FALSE)

\* handle_photo_click
HandlePhotoClick(cars, media, u, index) ==
    IF u \notin DOMAIN cars \/ index >= Len(cars[u].images)
    THEN Outcome(cars, media, <<ALERT_PHOTO_UNAVAILABLE>>, NoOffer, FALSE)
    ELSE Outcome(cars, media, <<ANSWER_SELECTED>>, NoOffer, FALSE)

\* handle_back_to_photos
HandleBackToPhotos(cars, media, u) ==
    IF u \notin DOMAIN cars
    THEN Outcome(cars, media, <<ALERT_NO_CAR>>, NoOffer, FALSE)
    ELSE Outcome(cars, media, <<ANSWER_EMPTY>>, NoOffer, FALSE)

\* Mutant: the offer is generated outside any try block, so its exceptions leave
\* the handler.
GenerateOfferUncaught(cars, media, u, car, index, nds, fault, matches) ==
    LET in_range == index < Len(car.images)
        output == GenerateTestSvg(IF in_range THEN car.images[index + 1] ELSE <<>>,
                                  nds, fault, matches)
        drawn == in_range /\ DrawCarInfoOnImage(car, output, fault)
    IN  IF ~drawn THEN Outcome(cars, media, <<>>, NoOffer, TRUE)
        ELSE IF fault = "send" THEN Outcome(cars, Pop(media, u), <<>>, NoOffer, TRUE)
        ELSE Outcome(cars, Pop(media, u), <<ANSWER_EMPTY>>,
                     [sent |-> TRUE, to |-> u, photo |-> car.images[index + 1],
                      nds |-> nds, embedded |-> output.embedded, car |-> car],
                     FALSE)

\* The last part of handle_vat_click (from "# Generate offer image"): the try block,
\* its except clause and the final call.answer(). car.images[index] raises
\* IndexError inside the try block; the media ids are popped before send_photo.
GenerateOffer(cars, media, u, car, index, nds, fault, matches) ==
    LET in_range == index < Len(car.images)
        output == GenerateTestSvg(IF in_range THEN car.images[index + 1] ELSE <<>>,
                                  nds, fault, matches)
        drawn == in_range /\ DrawCarInfoOnImage(car, output, fault)
    IN  IF ~drawn
        THEN Outcome(cars, media, <<ALERT_OFFER_FAILED, ANSWER_EMPTY>>, NoOffer, FALSE)
        ELSE IF fault = "send"
        THEN Outcome(cars, Pop(media, u), <<ALERT_OFFER_FAILED, ANSWER_EMPTY>>,
                     NoOffer, FALSE)
        ELSE Outcome(cars, Pop(media, u), <<ANSWER_EMPTY>>,
                     [sent |-> TRUE, to |-> u, photo |-> car.images[index + 1],
                      nds |-> nds, embedded |-> output.embedded, car |-> car],
                     FALSE)

\* handle_vat_click: the VAT branch changes car.price of the stored Car in place,
\* before the offer is generated.
HandleVatClick(cars, media, u, vat_choice, index, fault, matches) ==
    IF u \notin DOMAIN cars
    THEN Outcome(cars, media, <<ALERT_NO_CAR>>, NoOffer, FALSE)
    ELSE
        LET car == cars[u]
            nds == vat_choice = "yes"
            vat == VatPrice(car.price)
            priced == IF nds THEN [car EXCEPT !.price = vat.price] ELSE car
        IN  IF nds /\ ~vat.ok
            THEN Outcome(cars, media, <<ALERT_INVALID_PRICE>>, NoOffer, FALSE)
            ELSE GenerateOffer(Put(cars, u, priced), media, u, priced, index, nds,
                               fault, matches)

-----------------------------------------------------------------------------
(* Pages *)

AUTO_URL_USED == <<"https://auto.ru", "/cars/", "used", "/sale/1/">>
AUTO_URL_NEW == <<"https://auto.ru", "/cars/", "NEW", "/group/2/">>
DROM_URL == <<"https://auto.drom.ru", "/toyota/camry/3.html">>

IMG1 == <<"//", "cdn/1.jpg">>
IMG2 == <<"//", "cdn/2.jpg">>
IMG3 == <<"//", "cdn/3.jpg">>
IMG4 == <<"//", "cdn/4.jpg">>
THUMB == <<"//", "cdn/thumb.jpg">>

GalleryDiv(u) == [srcset |-> <<THUMB, u>>, style_url |-> <<>>]

NoRows == [c \in RowClasses |-> NoRow]

\* The rows of a used-vehicle page: a label cell and a value cell each.
UsedRows(year, mileage) ==
    (ITEM_YEAR :> Row(<< <<"God vypuska">>, year >>))
    @@ (ITEM_MILEAGE :> Row(<< <<"Probeg">>, mileage >>))
    @@ (ITEM_ENGINE :> Row(<< <<"Dvigatel">>, <<"2.0 l">> >>))
    @@ (ITEM_TRANSMISSION :> Row(<< <<"Korobka">>, <<"avtomat">> >>))
    @@ (ITEM_COLOR :> Row(<< <<"Tsvet">>, <<"belyy">> >>))
    @@ (ITEM_DRIVE :> Row(<< <<"Privod">>, <<"peredniy">> >>))
    @@ NoRows

\* The rows of a new-vehicle page: label and value in one text; the mileage row,
\* when there is one, is the used-layout row (NEW_ITEM_MILEAGE is its class).
NewRows(year, mileage_row) ==
    (NEW_ITEM_YEAR :> Row(<< <<"God vypuska">> \o year >>))
    @@ (NEW_ITEM_MILEAGE :> mileage_row)
    @@ (NEW_ITEM_ENGINE :> Row(<< <<"Dvigatel", "2.0 l">> >>))
    @@ (NEW_ITEM_TRANSMISSION :> Row(<< <<"Korobka", "avtomat">> >>))
    @@ (NEW_ITEM_COLOR :> Row(<< <<"Tsvet", " ", "belyy">> >>))
    @@ (NEW_ITEM_DRIVE :> Row(<< <<"Privod", "peredniy">> >>))
    @@ NoRows

YEAR_2021 == <<"2", "0", "2", "1">>
MILEAGE_120K == <<"1", "2", "0", NBSP, "0", "0", "0", NBSP, "k", "m">>
PRICE_100K == <<"1", "0", "0", NBSP, "0", "0", "0", NBSP, RUR>>

AutoPage(rows, price_used, gallery) ==
    [fetched |-> TRUE, status_ok |-> TRUE, captcha |-> FALSE, pages_amount |-> 0,
     card_body |-> TRUE,
     id |-> Element(<<"No 1">>),
     h1 |-> Element(<<"Toyota Camry", ",", " ", "2", "0", "2", "1">>),
     price_new |-> NoElement,
     price_used |-> price_used,
     rows |-> rows,
     gallery |-> gallery]

AutoFull ==
    AutoPage(UsedRows(YEAR_2021, MILEAGE_120K), Element(PRICE_100K),
             <<GalleryDiv(IMG1), GalleryDiv(IMG2), GalleryDiv(IMG3)>>)

\* A page with one photo and no price node.
AutoNoPrice ==
    AutoPage(UsedRows(YEAR_2021, MILEAGE_120K), NoElement, <<GalleryDiv(IMG4)>>)

DromRowOf(key, val) == [th |-> Element(key), td |-> Element(val)]

DROM_TITLE ==
    <<"Prodazha", " ", "Toyota Camry", " ", "2", "0", "2", "1", ",", " ",
      "2", "5", "0", " ", "0", "0", "0", " ", "rub", ",", " ", "Moskva">>

DromFullRows ==
    << DromRowOf(KEY_ENGINE, <<"benzin, 2.0 l">>),
       DromRowOf(KEY_POWER, <<"1", "5", "0", NBSP, "l.s.", ",", NBSP, "nalog">>),
       DromRowOf(KEY_TRANSMISSION, <<"avtomat">>),
       DromRowOf(KEY_DRIVE, <<"peredniy">>),
       DromRowOf(KEY_COLOR, <<"belyy">>),
       DromRowOf(KEY_MILEAGE, MILEAGE_120K) >>

DromPage(og_title, h1, table, gallery) ==
    [fetched |-> TRUE, status_ok |-> TRUE, captcha |-> FALSE, pages_amount |-> 0,
     og_title |-> og_title, h1 |-> h1, table |-> table, gallery |-> gallery]

DromFull ==
    DromPage(Element(DROM_TITLE), Element(<<"Toyota Camry">>),
             [present |-> TRUE, rows |-> DromFullRows],
             [present |-> TRUE, hrefs |-> <<IMG1, IMG2>>])

\* What the web serves to the bot.
BotAutoResponses ==
    {AutoFull, AutoNoPrice,
     [AutoFull EXCEPT !.captcha = TRUE],
     [AutoFull EXCEPT !.card_body = FALSE],
     [AutoFull EXCEPT !.fetched = FALSE],
     [AutoFull EXCEPT !.pages_amount = 1]}

BotDromResponses ==
    {DromFull,
     [DromFull EXCEPT !.captcha = TRUE],
     [DromFull EXCEPT !.status_ok = FALSE],
     [DromFull EXCEPT !.table = [present |-> TRUE, rows |-> Tail(DromFullRows)]]}

-----------------------------------------------------------------------------
(* The bot as a state machine: one action per handler *)

\* VAT applications followed per stored Car.
MaxVat == 2

\* What the offer generation meets: a fault and the number of xlink:href references
\* of the template (enough, fewer than the photo's position, fewer than MinMatches).
RenderEnvs ==
    {<<f, PhotoMatchIndex + 1>> : f \in Faults}
    \cup {<<"none", MinMatches>>, <<"none", MinMatches - 1>>}

\* Indices the keyboards of the bot carry: create_photo_keyboard makes photo_0 ..
\* photo_2, create_vat_keyboard repeats the index. A keyboard outlives the Car it
\* was made for, so any of them can arrive at any time.
ButtonIndices == 0..(GalleryLimit - 1)

NoRun ==
    [handler |-> "-", user |-> "-", choice |-> "-", index |-> 0, fault |-> "none",
     matches |-> 0, captcha |-> FALSE, stored |-> FALSE, answers |-> <<>>,
     offer |-> NoOffer, raised |-> FALSE]

BotInit ==
    /\ user_cars = <<>>
    /\ user_media_messages = <<>>
    /\ extracted = <<>>
    /\ vat_count = [u \in Users |-> 0]
    /\ last = NoRun

ParseIdle ==
    /\ url = <<>>
    /\ content = <<>>
    /\ result = NotRun

Init ==
    /\ USE_SELENIUM \in BOOLEAN
    /\ BotInit
    /\ ParseIdle

\* A message with a URL: process_car_url with the given parser.
UrlMessage(handler, u, parsed, captcha, media_ok) ==
    LET out == ProcessCarUrl(user_cars, user_media_messages, u, parsed, media_ok)
        stored == /\ u \in ALLOWED_USER_IDS
                  /\ parsed.kind = "car"
                  /\ parsed.car.images # <<>>
    IN  /\ user_cars' = out.user_cars
        /\ user_media_messages' = out.user_media_messages
        /\ extracted' = IF stored THEN Put(extracted, u, parsed.car.price) ELSE extracted
        /\ vat_count' = IF stored THEN [vat_count EXCEPT ![u] = 0] ELSE vat_count
        /\ last' = [NoRun EXCEPT !.handler = handler, !.user = u, !.captcha = captcha,
                                 !.stored = stored, !.answers = out.answers,
                                 !.raised = out.raised]
        /\ UNCHANGED <<USE_SELENIUM, parseVars>>

\* What the two URL handlers can get from their parser, for each setting of
\* USE_SELENIUM: the page's captcha flag and what the parser returned or raised.
BotUrlInputs ==
    {[handler |-> "auto", selenium |-> s, captcha |-> resp.captcha,
      parsed |-> ParseResponse(AUTO_URL_USED, resp, s)] :
        s \in BOOLEAN, resp \in BotAutoResponses}
    \cup
    {[handler |-> "drom", selenium |-> s, captcha |-> resp.captcha,
      parsed |-> ParseResponseDrom(DROM_URL, resp, s)] :
        s \in BOOLEAN, resp \in BotDromResponses}

\* handle_auto_ru
HandleAutoRu(u) ==
    \E in \in BotUrlInputs, media_ok \in BOOLEAN :
        /\ in.handler = "auto" /\ in.selenium = USE_SELENIUM
        /\ UrlMessage("auto", u, in.parsed, in.captcha, media_ok)

\* handle_drom_ru
HandleDromRu(u) ==
    \E in \in BotUrlInputs, media_ok \in BOOLEAN :
        /\ in.handler = "drom" /\ in.selenium = USE_SELENIUM
        /\ UrlMessage("drom", u, in.parsed, in.captcha, media_ok)

Callback(handler, u, choice, index, fault, matches, out) ==
    /\ user_cars' = out.user_cars
    /\ user_media_messages' = out.user_media_messages
    /\ last' = [NoRun EXCEPT !.handler = handler, !.user = u, !.choice = choice,
                             !.index = index, !.fault = fault, !.matches = matches,
                             !.answers = out.answers, !.offer = out.offer,
                             !.raised = out.raised]
    /\ UNCHANGED <<USE_SELENIUM, extracted, parseVars>>

PhotoClick(u) ==
    \E index \in ButtonIndices :
        /\ Callback("photo", u, "-", index, "none", 0,
                    HandlePhotoClick(user_cars, user_media_messages, u, index))
        /\ UNCHANGED vat_count

BackToPhotos(u) ==
    /\ Callback("back", u, "-", 0, "none", 0,
                HandleBackToPhotos(user_cars, user_media_messages, u))
    /\ UNCHANGED vat_count

\* handle_vat_click, for callbacks drawn from the given choices, indices and
\* environments.
VatClickOn(u, vat_choices, indices, envs) ==
    \E vat_choice \in vat_choices, index \in indices, env \in envs :
        LET fault == env[1]
            matches == env[2]
            out == HandleVatClick(user_cars, user_media_messages, u, vat_choice,
                                  index, fault, matches)
            applied == u \in DOMAIN user_cars /\ vat_choice = "yes"
                       /\ VatPrice(user_cars[u].price).ok
        IN  /\ vat_count[u] < MaxVat
            /\ Callback("vat", u, vat_choice, index, fault, matches, out)
            /\ vat_count' = IF applied THEN [vat_count EXCEPT ![u] = @ + 1]
                            ELSE vat_count

VatClick(u) == VatClickOn(u, {"yes", "no"}, ButtonIndices, RenderEnvs)

\* The users who write to the bot in Spec: one who is allowed, one who is not.
Actors == {"alice", "mallory"}

Next ==
    \E u \in Actors :
        \/ HandleAutoRu(u)
        \/ HandleDromRu(u)
        \/ PhotoClick(u)
        \/ BackToPhotos(u)
        \/ VatClick(u)

Spec == Init /\ [][Next]_vars

-----------------------------------------------------------------------------
(* The price adjustment on many prices: one user, one stored Car whose price is
   any short text, and VAT-included callbacks for its first photo *)

MaxPriceLen == 4

PriceAlphabet == {"0", "1", "4", "9", " ", "a"}

BoundedSeq(S, n) == UNION {[1..k -> S] : k \in 0..n}

PRICE_100_000 == <<"1", "0", "0", " ", "0", "0", "0">>
PRICE_120_000 == <<"1", "2", "0", " ", "0", "0", "0">>
NOT_A_PRICE == <<"n", "o", "t", " ", "a", " ", "p", "r", "i", "c", "e">>

VatPriceInputs ==
    BoundedSeq(PriceAlphabet, MaxPriceLen)
    \cup {PyInt0, PRICE_100_000, NOT_A_PRICE, <<"0", " ", "0", "0", "0">>}

\* The Car of the full auto.ru page.
AutoFullCar == ParseContent(AUTO_URL_USED, AutoFull).car

InitVat ==
    /\ USE_SELENIUM = TRUE
    /\ \E price \in VatPriceInputs :
        /\ user_cars = ("alice" :> [AutoFullCar EXCEPT !.price = price])
        /\ extracted = ("alice" :> price)
    /\ user_media_messages = ("alice" :> MediaIds("alice", AutoFullCar))
    /\ vat_count = [u \in Users |-> 0]
    /\ last = NoRun
    /\ ParseIdle

NextVat == VatClickOn("alice", {"yes"}, {0}, {<<"none", PhotoMatchIndex + 1>>})

SpecVat == InitVat /\ [][NextVat]_vars

-----------------------------------------------------------------------------
(* The auto.ru normalizer on pages whose attribute rows vary *)

FieldLabel(f) ==
    CASE f = "year" -> <<"God vypuska">>
      [] f = "mileage" -> <<"Probeg">>
      [] f = "engine" -> <<"Dvigatel">>
      [] f = "transmission" -> <<"Korobka">>
      [] f = "color" -> <<"Tsvet">>
      [] f = "drive" -> <<"Privod">>

FieldValue(f) ==
    CASE f = "year" -> YEAR_2021
      [] f = "mileage" -> MILEAGE_120K
      [] f = "engine" -> <<"2.0 l">>
      [] f = "transmission" -> <<" ", "avtomat">>
      [] f = "color" -> <<"belyy">>
      [] f = "drive" -> <<"peredniy", NBSP>>

\* A second value, for the fields whose rows vary further.
OtherValue(f) ==
    CASE f = "year" -> <<"2", "0", "1", "9">>
      [] f = "mileage" -> <<"3", "0", "0", " ", "k", "m">>
      [] OTHER -> FieldValue(f)

\* The class parse_content looks a field up under, for the subtype of the URL.
SelectorOf(car_url, f) ==
    IF IsNewUrl(car_url) THEN new_attributes(f)[1] ELSE attributes(f)[1]

\* Rows that make field f missing: the selector matches nothing, or, on a used page,
\* the row has fewer than two cells.
MissingRows(car_url) ==
    IF IsNewUrl(car_url) THEN {NoRow}
    ELSE {NoRow, Row(<<>>), Row(<< <<"label">> >>)}

WithRow(page, class_name, row) == [page EXCEPT !.rows[class_name] = row]

\* The row of field f on a page: none, a row with the label cell only, a full row
\* (label and value in one text on a new page, where the mileage row keeps the two
\* cells of the used layout), or a row with the second value (on a new page: the
\* value without its label).
RowChoice(car_url, f, choice) ==
    CASE choice = "none" -> NoRow
      [] choice = "label" -> Row(<<FieldLabel(f)>>)
      [] choice = "full" ->
            IF IsNewUrl(car_url) /\ f # "mileage"
            THEN Row(<<FieldLabel(f) \o FieldValue(f)>>)
            ELSE Row(<<FieldLabel(f), FieldValue(f)>>)
      [] choice = "other" ->
            IF IsNewUrl(car_url) THEN Row(<<OtherValue(f)>>)
            ELSE Row(<<FieldLabel(f), OtherValue(f)>>)

RowChoices(f) ==
    IF f \in {"year", "mileage"} THEN {"none", "label", "full", "other"}
    ELSE {"none", "label", "full"}

\* The page with the chosen rows under the classes of the URL's subtype.
SiteAPage(car_url, choice) ==
    [AutoFull EXCEPT !.rows =
        [c \in RowClasses |->
            IF \E f \in Fields : SelectorOf(car_url, f) = c
            THEN LET f == CHOOSE g \in Fields : SelectorOf(car_url, g) = c
                 IN  RowChoice(car_url, f, choice[f])
            ELSE NoRow]]

InitSiteA ==
    /\ USE_SELENIUM = TRUE
    /\ BotInit
    /\ url \in {AUTO_URL_USED, AUTO_URL_NEW}
    /\ \E choice \in [Fields -> {"none", "label", "full", "other"}] :
        /\ \A f \in Fields : choice[f] \in RowChoices(f)
        /\ content = SiteAPage(url, choice)
    /\ result = NotRun

\* parser.parse_content on the page.
ParseAuto ==
    /\ result = NotRun
    /\ result' = ParseContent(url, content)
    /\ UNCHANGED <<botVars, url, content>>

NextSiteA == ParseAuto

SpecSiteA == InitSiteA /\ [][NextSiteA]_vars

-----------------------------------------------------------------------------
(* The drom.ru normalizer on pages with optional parts missing *)

\* The subsequences of a sequence, as sequences.
RECURSIVE SubSeqs(_)
SubSeqs(s) ==
    IF s = <<>> THEN {<<>>}
    ELSE LET rest == SubSeqs(Tail(s))
         IN  rest \cup {<<Head(s)>> \o r : r \in rest}

DromTables ==
    {[present |-> FALSE, rows |-> <<>>]}
    \cup {[present |-> TRUE, rows |-> rows] : rows \in SubSeqs(DromFullRows)}
    \cup {[present |-> TRUE,
           rows |-> <<DromFullRows[2], DromFullRows[1]>> \o Drop(DromFullRows, 2)]}

InitDrom ==
    /\ USE_SELENIUM = TRUE
    /\ BotInit
    /\ url = DROM_URL
    /\ \E og \in {NoElement, DromFull.og_title}, h1 \in {NoElement, DromFull.h1},
          table \in DromTables,
          gallery \in {DromFull.gallery, [present |-> FALSE, hrefs |-> <<>>]} :
        content = DromPage(og, h1, table, gallery)
    /\ result = NotRun

\* parser_drom.parse_content on the page.
ParseDrom ==
    /\ result = NotRun
    /\ result' = DromParseContent(url, content)
    /\ UNCHANGED <<botVars, url, content>>

NextDrom == ParseDrom

SpecDrom == InitDrom /\ [][NextDrom]_vars

-----------------------------------------------------------------------------
(* Every way a Car is constructed, on many mileage texts *)

MaxMileageLen == 3

MileageAlphabet == {"0", "4", "5", "9", " ", NBSP}

MileageSuffixes == {<<>>, <<" ", "k", "m">>, <<NBSP, "k", "m">>}

MileageTexts ==
    {body \o suffix : body \in BoundedSeq(MileageAlphabet, MaxMileageLen),
                      suffix \in MileageSuffixes}
    \cup {<<"Probeg">> \o MILEAGE_120K, <<"Probeg", "4", "5", "0", " ", "k", "m">>,
          MILEAGE_120K, NEW_CAR}

Routes == {"auto used", "auto new", "drom", "direct"}

DromRowsWithMileage(text) ==
    [i \in 1..Len(DromFullRows) |->
        IF DromFullRows[i].th.text = KEY_MILEAGE THEN DromRowOf(KEY_MILEAGE, text)
        ELSE DromFullRows[i]]

\* The Car each route builds from a page whose mileage node holds the text.
ConstructVia(route, text) ==
    CASE route = "auto used" ->
            ParseContent(AUTO_URL_USED,
                         [AutoFull EXCEPT !.rows = UsedRows(YEAR_2021, text)])
      [] route = "auto new" ->
            ParseContent(AUTO_URL_NEW,
                         [AutoFull EXCEPT !.rows = NewRows(YEAR_2021, Row(<<text>>))])
      [] route = "drom" ->
            DromParseContent(DROM_URL,
                             [DromFull EXCEPT !.table.rows = DromRowsWithMileage(text)])
      [] route = "direct" ->
            Returned(Car(PyNone, <<>>, PyInt0, NEW_YEAR, text, NEW_ENGINE,
                         NEW_TRANSMISSION, NEW_COLOR, NEW_DRIVE, <<>>, NO_URL))

InitMileage ==
    /\ USE_SELENIUM = TRUE
    /\ BotInit
    /\ url = <<>>
    /\ \E route \in Routes, text \in MileageTexts :
        content = [route |-> route, text |-> text]
    /\ result = NotRun

Construct ==
    /\ result = NotRun
    /\ result' = ConstructVia(content.route, content.text)
    /\ UNCHANGED <<botVars, url, content>>

NextMileage == Construct

SpecMileage == InitMileage /\ [][NextMileage]_vars

-----------------------------------------------------------------------------
(* Claims *)

\* C1: VAT is never applied more than once to a Listing: whatever VAT-selection
\* callbacks a user issues for one extracted Listing, the stored price is the
\* price as extracted or that price with VAT applied once.
C1_VatAtMostOnce ==
    \A u \in DOMAIN user_cars :
        \/ user_cars[u].price = extracted[u]
        \/ /\ VatPrice(extracted[u]).ok
           /\ user_cars[u].price = VatPrice(extracted[u]).price

DromHasRow(page, key) ==
    /\ page.table.present
    /\ \E i \in 1..Len(page.table.rows) :
        /\ page.table.rows[i].th.present
        /\ page.table.rows[i].td.present
        /\ Strip(page.table.rows[i].th.text) = key

\* C2: the drom.ru normalizer never raises when optional inputs are missing (the
\* og:title tag, the attribute table, any of its rows): it returns a Listing in
\* which every missing field holds its sentinel default, and year and price are
\* empty when og:title is missing.
C2_DromMissingGivesSentinel ==
    result.kind # "-" =>
        /\ result.kind = "car"
        /\ ~content.og_title.present =>
                (result.car.year = <<>> /\ result.car.price = <<>>)
        /\ ~DromHasRow(content, KEY_MILEAGE) => result.car.mileage = NEW_CAR
        /\ (~DromHasRow(content, KEY_ENGINE) /\ ~DromHasRow(content, KEY_POWER))
                => result.car.engine = NEW_ENGINE
        /\ ~DromHasRow(content, KEY_TRANSMISSION)
                => result.car.transmission = NEW_TRANSMISSION
        /\ ~DromHasRow(content, KEY_COLOR) => result.car.color = NEW_COLOR
        /\ ~DromHasRow(content, KEY_DRIVE) => result.car.drive = NEW_DRIVE

RowMissing(car_url, row) ==
    ~row.present \/ (~IsNewUrl(car_url) /\ Len(row.cells) < 2)

\* C3: on an auto.ru page with its root container, for each of the six optional
\* fields and both subtypes: when the field's selector matches nothing (or, on a
\* used page, its row has fewer than two cells) the Listing holds the field's
\* sentinel, nothing is raised, and the other five fields are what they are with
\* the field present.
C3_SentinelSubstitution ==
    result.kind # "-" =>
        /\ result.kind = "car"
        /\ \A f \in Fields :
            /\ RowMissing(url, content.rows[SelectorOf(url, f)])
                    => result.car[f] = CarDefault(f)
            /\ \A missing \in MissingRows(url) :
                LET r == ParseContent(url, WithRow(content, SelectorOf(url, f), missing))
                IN  /\ r.kind = "car"
                    /\ r.car[f] = CarDefault(f)
                    /\ \A g \in Fields \ {f} : r.car[g] = result.car[g]

\* C3 happens: a used page whose colour row has one cell gave the colour sentinel
\* beside an extracted year.
C3_Witness ==
    /\ url = AUTO_URL_USED
    /\ result.kind = "car"
    /\ content.rows[ITEM_COLOR] = Row(<<FieldLabel("color")>>)
    /\ result.car.color = NEW_COLOR
    /\ result.car.year = YEAR_2021

NotSeparator(c) == c \notin {" ", NBSP}

\* The mileage text without thousands separators and without the unit suffix.
MileageNumber(text) ==
    LET t == SelectSeq(text, NotSeparator)
    IN  IF Len(t) >= 2 /\ SubSeq(t, Len(t) - 1, Len(t)) = <<"k", "m">>
        THEN SubSeq(t, 1, Len(t) - 2)
        ELSE t

C5_CaptchaNeverStored == last.captcha => ~last.stored

HasDigit(price) == \E i \in 1..Len(price) : IsDigit(price[i])

\* Digits in groups of three counted from the right, one space between the groups,
\* nothing else, no leading zero.
WellGrouped(t) ==
    /\ t # <<>>
    /\ \A i \in 1..Len(t) :
        IF (Len(t) - i + 1) % 4 = 0 THEN t[i] = " " ELSE IsDigit(t[i])
    /\ (t[1] = "0" => t = <<"0">>)

\* A step of the VAT-included branch of handle_vat_click on a stored Car.
VatYesStep ==
    /\ last'.handler = "vat"
    /\ last'.choice = "yes"
    /\ last'.user \in DOMAIN user_cars

\* C6: the VAT branch of handle_vat_click: a price with at least one digit, n being
\* the integer its digits form, becomes the decimal rendering of n * 1.2 rounded to
\* the nearest integer, grouped in threes by single spaces; a price without a digit
\* (or the non-string default) fails with the invalid-price error, stays as it is
\* and sends no offer.
C6_ApplyVat ==
    [][VatYesStep =>
        LET before == user_cars[last'.user].price
            after == user_cars'[last'.user].price
            n == DigitsToInt(SelectSeq(before, IsDigit))
            v == DigitsToInt(SelectSeq(after, IsDigit))
        IN  IF HasDigit(before)
            THEN /\ WellGrouped(after)
                 /\ 5 * v - 6 * n \in -2..2
                 /\ last'.answers # <<ALERT_INVALID_PRICE>>
            ELSE /\ after = before
                 /\ last'.answers = <<ALERT_INVALID_PRICE>>
                 /\ ~last'.offer.sent]_vars

\* C6 happens: "100 000" became "120 000" and the offer was sent.
C6_Witness ==
    /\ extracted["alice"] = PRICE_100_000
    /\ vat_count["alice"] = 1
    /\ user_cars["alice"].price = PRICE_120_000
    /\ last.offer.sent

\* C7 as claimed: the VAT branch fails with the invalid-price error for every price
\* whose digits do not denote a positive integer, zero included.
C7_ZeroIsInvalid ==
    [][VatYesStep =>
        LET before == user_cars[last'.user].price
        IN  (~HasDigit(before) \/ DigitsToInt(SelectSeq(before, IsDigit)) = 0)
                => last'.answers = <<ALERT_INVALID_PRICE>>]_vars

\* C7 amended: the VAT branch fails with the invalid-price error exactly for the
\* prices without any digit; a price whose digits denote zero is accepted and
\* becomes "0".
C7_InvalidIffNoDigit ==
    [][VatYesStep =>
        LET before == user_cars[last'.user].price
            after == user_cars'[last'.user].price
        IN  /\ (last'.answers = <<ALERT_INVALID_PRICE>>) <=> ~HasDigit(before)
            /\ (HasDigit(before) /\ DigitsToInt(SelectSeq(before, IsDigit)) = 0)
                    => after = <<"0">>]_vars

\* C7 happens: the price "0 000" was accepted, became "0" and went into an offer.
C7_Witness ==
    /\ extracted["alice"] = <<"0", " ", "0", "0", "0">>
    /\ last.handler = "vat"
    /\ last.choice = "yes"
    /\ user_cars["alice"].price = <<"0">>
    /\ last.offer.sent

ErrorAlerts == {ALERT_PHOTO_UNAVAILABLE, ALERT_INVALID_PRICE, ALERT_OFFER_FAILED}

IndexOutOfRange ==
    /\ last.handler \in {"photo", "vat"}
    /\ last.user \in DOMAIN user_cars
    /\ last.index >= Len(user_cars[last.user].images)

\* C8: a photo-selection or VAT-selection callback whose image index is not below
\* the number of images of the user's stored Listing is answered with an error,
\* sends no offer image and lets no exception leave the handler.
C8_IndexOutOfRangeIsInvalidInput ==
    IndexOutOfRange =>
        /\ last.answers # <<>>
        /\ last.answers[1] \in ErrorAlerts
        /\ ~last.offer.sent
        /\ ~last.raised

\* C8 happens: a VAT callback for the third photo of a Listing with fewer photos
\* ended with the offer error.
C8_Witness ==
    /\ IndexOutOfRange
    /\ last.handler = "vat"
    /\ last.fault = "none"
    /\ last.index = 2
    /\ last.answers = <<ALERT_OFFER_FAILED, ANSWER_EMPTY>>

\* The handler got as far as generating the offer: there is a Car, and the price
\* was accepted when VAT was asked for.
OfferAttempted ==
    /\ last.handler = "vat"
    /\ last.user \in DOMAIN user_cars
    /\ (last.choice = "yes" => VatPrice(user_cars[last.user].price).ok)

\* A step of the offer generation fails: the photo download, the template read,
\* the placeholder substitution (the template has the references the code asks for
\* but not the one at the photo's position), the rasterization, the text overlay.
StepFails ==
    \/ last.fault \in {"photo", "template", "raster", "font"}
    \/ (last.matches >= MinMatches /\ last.matches <= PhotoMatchIndex)
    \/ user_cars[last.user].price = PyInt0

C10_ListingDiscardedAfterOffer ==
    (last.handler = "vat" /\ last.offer.sent) => last.user \notin DOMAIN user_cars

-----------------------------------------------------------------------------
(* Both normalizers on pages whose galleries vary, and the Car they give stored
   and used *)

MaxGallery == 5

\* What a gallery node can hold: a protocol-relative URL, an https URL, another
\* source (auto.ru: only the cover span's background-image; drom.ru: an http URL),
\* or nothing (auto.ru: neither img nor cover span; drom.ru: an anchor without
\* href).
GalleryKinds == {"relative", "https", "other", "none"}

\* The URL of the node at position i; its last token tells the position.
RelativeUrl(i) == <<"//", "cdn/", DigitChar(i)>>
AbsoluteUrl(scheme, i) == <<scheme, "cdn/", DigitChar(i)>>

AutoGalleryNode(kind, i) ==
    CASE kind = "relative" -> [srcset |-> <<THUMB, RelativeUrl(i)>>, style_url |-> <<>>]
      [] kind = "https" ->
            [srcset |-> <<THUMB, AbsoluteUrl("https://", i)>>, style_url |-> <<>>]
      [] kind = "other" -> [srcset |-> <<>>, style_url |-> RelativeUrl(i)]
      [] kind = "none" -> [srcset |-> <<>>, style_url |-> <<>>]

DromGalleryNode(kind, i) ==
    CASE kind = "relative" -> RelativeUrl(i)
      [] kind = "https" -> AbsoluteUrl("https://", i)
      [] kind = "other" -> AbsoluteUrl("http://", i)
      [] kind = "none" -> <<>>

GalleryPage(car_url, kinds) ==
    IF car_url = DROM_URL
    THEN [DromFull EXCEPT !.gallery =
            [present |-> TRUE,
             hrefs |-> [i \in 1..Len(kinds) |-> DromGalleryNode(kinds[i], i)]]]
    ELSE [AutoFull EXCEPT !.gallery =
            [i \in 1..Len(kinds) |-> AutoGalleryNode(kinds[i], i)]]

InitGallery ==
    /\ USE_SELENIUM = TRUE
    /\ BotInit
    /\ url \in {AUTO_URL_USED, DROM_URL}
    /\ \E kinds \in BoundedSeq(GalleryKinds, MaxGallery) :
        content = GalleryPage(url, kinds)
    /\ result = NotRun

\* parse_content of the site on the page.
ParseGallery ==
    /\ result = NotRun
    /\ result' = IF url = DROM_URL THEN DromParseContent(url, content)
                                   ELSE ParseContent(url, content)
    /\ UNCHANGED <<botVars, url, content>>

\* The URL handler of the site run by alice on the page, once.
StoreParsed ==
    /\ last.handler = "-"
    /\ IF url = DROM_URL
       THEN UrlMessage("drom", "alice", ParseResponseDrom(url, content, USE_SELENIUM),
                       content.captcha, TRUE)
       ELSE UrlMessage("auto", "alice", ParseResponse(url, content, USE_SELENIUM),
                       content.captcha, TRUE)

\* Offers without VAT for any button of the keyboard.
OfferFromParsed ==
    VatClickOn("alice", {"no"}, ButtonIndices, {<<"none", PhotoMatchIndex + 1>>})

NextGallery == ParseGallery \/ StoreParsed \/ OfferFromParsed

SpecGallery == InitGallery /\ [][NextGallery]_vars

-----------------------------------------------------------------------------
(* Claims about the galleries *)

\* The candidate gallery nodes of the page, in document order.
GalleryNodes == IF url = DROM_URL THEN content.gallery.hrefs ELSE content.gallery

\* The position of the node an image URL came from.
PositionOf(image) == DigitVal(image[Len(image)])

\* C11: for every page with at least 3 candidate gallery nodes (auto.ru gallery
\* containers, drom.ru thumbnail anchors) the Listing has exactly 3 images, in the
\* document order of their nodes.
C11_ImageCapInOrder ==
    (result.kind = "car" /\ Len(GalleryNodes) >= 3) =>
        /\ Len(result.car.images) = 3
        /\ \A j, k \in 1..Len(result.car.images) :
            j < k => PositionOf(result.car.images[j]) < PositionOf(result.car.images[k])

\* C12: every Listing a normalizer returns and every Listing in user_cars has at
\* most 3 images, however many gallery nodes the page has.
C12_AtMostThreeImages ==
    /\ result.kind = "car" => Len(result.car.images) <= 3
    /\ \A u \in DOMAIN user_cars : Len(user_cars[u].images) <= 3

\* C12 happens: a page with five usable gallery nodes was parsed, stored with three
\* images and used for an offer.
C12_Witness ==
    /\ Len(GalleryNodes) = 5
    /\ result.kind = "car"
    /\ Len(result.car.images) = 3
    /\ "alice" \in DOMAIN user_cars
    /\ Len(user_cars["alice"].images) = 3
    /\ last.offer.sent

\* The image URL a gallery node offers: the anchor's href; the second candidate of
\* the img's srcset, else the URL of the cover span.
CandidateUrl(node) ==
    IF url = DROM_URL THEN node
    ELSE IF Len(node.srcset) >= 2 THEN node.srcset[2] ELSE node.style_url

ImageSet == {result.car.images[j] : j \in 1..Len(result.car.images)}

\* C13: in both normalizers a candidate image URL beginning with "//" is stored as
\* "https:" followed by it, and a candidate that is already absolute (https:// or
\* http://) is stored unchanged, neither rewritten nor dropped. Stated for the
\* nodes within the cap.
C13_ImageUrlNormalization ==
    result.kind = "car" =>
        \A i \in 1..Len(GalleryNodes) :
            LET u == CandidateUrl(GalleryNodes[i])
            IN  (i <= 3 /\ u # <<>>) =>
                    /\ u[1] = "//" => (<<"https:">> \o u) \in ImageSet
                    /\ u[1] \in {"https://", "http://"} => u \in ImageSet

-----------------------------------------------------------------------------
(* handle_auto_ru on auto.ru pages that lack one thing or another *)

RootGalleries ==
    { <<GalleryDiv(IMG1), GalleryDiv(IMG2), GalleryDiv(IMG3)>>,
      <<GalleryDiv(IMG4)>>,
      <<AutoGalleryNode("none", 1)>>,
      <<>> }

RootPages ==
    {[AutoPage(rows, price, gallery) EXCEPT
            !.card_body = root, !.fetched = fetched, !.status_ok = status_ok,
            !.captcha = captcha, !.pages_amount = pages] :
        rows \in {UsedRows(YEAR_2021, MILEAGE_120K), NoRows},
        price \in {Element(PRICE_100K), NoElement},
        gallery \in RootGalleries,
        root \in BOOLEAN, fetched \in BOOLEAN, status_ok \in BOOLEAN,
        captcha \in BOOLEAN, pages \in {0, 1}}

InitRoot ==
    /\ USE_SELENIUM \in BOOLEAN
    /\ BotInit
    /\ url = AUTO_URL_USED
    /\ content \in RootPages
    /\ result = NotRun

SpecRoot == InitRoot /\ [][StoreParsed]_vars

\* C14: for an auto.ru page that is fetched successfully and has no challenge
\* marker, the user is told the extraction failed if and only if the root container
\* is absent; with the root container the Listing is stored, whatever fields, price
\* or gallery images are missing.
C14_RootContainerDecides ==
    (last.handler = "auto" /\ content.fetched /\ content.status_ok /\ ~content.captcha)
        => /\ (last.answers = <<MSG_NOT_EXTRACTED>>) <=> ~content.card_body
           /\ content.card_body => (last.stored /\ "alice" \in DOMAIN user_cars)

-----------------------------------------------------------------------------
(* utils/parser_utils.py, and the three field extractors on many nodes *)

\* parser_utils.extract_text
extract_text(element, default, second_text) ==
    IF ~element.present THEN default
    ELSE LET full_text == Strip(element.text)
         IN  IF ~second_text THEN full_text
             ELSE StripPrefix(full_text, attribute_prefixes)

MaxTextLen == 4

TextAlphabet == {" ", NBSP, "Tsvet", "Probeg", "x"}

Extractors == {"parser", "parser_drom", "parser_utils"}

InitExtract ==
    /\ USE_SELENIUM = TRUE
    /\ BotInit
    /\ url = <<>>
    /\ \E impl \in Extractors, second_text \in BOOLEAN, default \in {<<>>, NEW_COLOR},
          element \in {NoElement} \cup {Element(t) : t \in BoundedSeq(TextAlphabet, MaxTextLen)} :
        content = [impl |-> impl, element |-> element, default |-> default,
                   second_text |-> second_text]
    /\ result = NotRun

\* One call of the chosen implementation; parser_drom._extract_text takes the same
\* three arguments and uses only the element.
ApplyExtractor ==
    /\ result = NotRun
    /\ result' =
        CASE content.impl = "parser" ->
                [kind |-> "text", exc |-> "-",
                 text |-> ExtractText(content.element, content.default, content.second_text)]
          [] content.impl = "parser_utils" ->
                [kind |-> "text", exc |-> "-",
                 text |-> extract_text(content.element, content.default, content.second_text)]
          [] content.impl = "parser_drom" ->
                LET r == DromExtractText(content.element)
                IN  IF r.ok THEN [kind |-> "text", exc |-> "-", text |-> r.text]
                    ELSE [kind |-> "raise", exc |-> "AttributeError", text |-> <<>>]
    /\ UNCHANGED <<botVars, url, content>>

SpecExtract == InitExtract /\ [][ApplyExtractor]_vars

\* The five labels the extractor knows (year, engine, transmission, color, drive).
KnownLabels == {"God vypuska", "Dvigatel", "Korobka", "Tsvet", "Privod"}

\* The text with the white space at both ends removed.
Trimmed(t) ==
    LET inner == {i \in 1..Len(t) : t[i] \notin {" ", NBSP}}
    IN  IF inner = {} THEN <<>>
        ELSE SubSeq(t, CHOOSE i \in inner : \A j \in inner : i <= j,
                       CHOOSE i \in inner : \A j \in inner : i >= j)

\* C15: each of the three field extractors returns the default for an absent node
\* and raises nothing; for a node it returns the trimmed text, and with
\* second-segment extraction a text that starts with a known label gives the
\* trimmed remainder after the label, any other text is returned whole.
C15_FieldExtractor ==
    result.kind # "-" =>
        /\ result.kind = "text"
        /\ IF ~content.element.present THEN result.text = content.default
           ELSE LET t == Trimmed(content.element.text)
                IN  IF content.second_text /\ t # <<>> /\ t[1] \in KnownLabels
                    THEN result.text = Trimmed(Tail(t))
                    ELSE result.text = t

-----------------------------------------------------------------------------
(* Claims about the drom.ru attribute table *)

AllDromRowsPresent ==
    \A key \in {KEY_ENGINE, KEY_POWER, KEY_MILEAGE, KEY_COLOR, KEY_TRANSMISSION,
                KEY_DRIVE} : DromHasRow(content, key)

\* C16: for every drom.ru attribute table with both an engine row and a power row,
\* in whatever order, the Listing's engine is "<engine value>, <power value>";
\* the rows are processed without an exception and the power value is not lost.
\* Stated for pages that lack nothing else.
C16_EnginePowerComposition ==
    (result.kind # "-" /\ content.og_title.present /\ AllDromRowsPresent) =>
        /\ result.kind = "car"
        /\ result.car.engine =
            <<"benzin, 2.0 l", ",", " ", "1", "5", "0", " ", "l.s.">>

-----------------------------------------------------------------------------
(* Claims about the auto.ru price *)

\* The price node parse_content reads on the page.
PriceNode ==
    IF IsNewUrl(url) /\ content.price_new.present THEN content.price_new
    ELSE content.price_used

\* The text up to the first currency symbol, non-breaking spaces made plain.
CutAndPlain(text) ==
    LET symbols == {i \in 1..Len(text) : text[i] = RUR}
        upto == IF symbols = {} THEN Len(text)
                ELSE (CHOOSE i \in symbols : \A j \in symbols : i <= j) - 1
    IN  [i \in 1..upto |-> IF text[i] = NBSP THEN " " ELSE text[i]]

\* C17: the auto.ru Listing's price is the price node's text cut at the first
\* currency symbol, with every non-breaking space replaced by a plain space: a
\* stored price holds neither the currency symbol nor a non-breaking space.
C17_PriceNormalization ==
    (result.kind = "car" /\ PriceNode.present) =>
        /\ result.car.price = CutAndPlain(PriceNode.text)
        /\ \A i \in 1..Len(result.car.price) : result.car.price[i] \notin {RUR, NBSP}

-----------------------------------------------------------------------------
(* src/render.py: the title word-wrap *)

\* draw.textbbox of a line: a word is given by its width, a line of words is as
\* wide as its words and the single spaces between them; the empty line has no
\* width.
RECURSIVE TextWidth(_)
TextWidth(line) ==
    IF line = <<>> THEN 0
    ELSE IF Len(line) = 1 THEN line[1]
    ELSE line[1] + 1 + TextWidth(Tail(line))

\* The loop of draw_multiline_text over words = text.split(), and the final
\* "if current_line". A line is the sequence of its words, "" the empty sequence;
\* f"{current_line} {word}".strip() is the line with the word added.
RECURSIVE WrapWords(_, _, _, _)
WrapWords(words, lines, current_line, max_width) ==
    IF words = <<>>
    THEN IF current_line # <<>> THEN Append(lines, current_line) ELSE lines
    ELSE LET word == Head(words)
             test_line == current_line \o <<word>>
         IN  IF TextWidth(test_line) <= max_width
             THEN WrapWords(Tail(words), lines, test_line, max_width)
             ELSE WrapWords(Tail(words), Append(lines, current_line), <<word>>,
                            max_width)

\* draw_multiline_text: the lines it draws, top to bottom.
draw_multiline_text(words, max_width) == WrapWords(words, <<>>, <<>>, max_width)

MaxWords == 4

WordWidths == {1, 2, 5}

InitWrap ==
    /\ USE_SELENIUM = TRUE
    /\ BotInit
    /\ url = <<>>
    /\ \E words \in BoundedSeq(WordWidths, MaxWords), max_width \in {3, 4} :
        content = [words |-> words, max_width |-> max_width]
    /\ result = NotRun

DrawTitle ==
    /\ result = NotRun
    /\ result' = [kind |-> "lines", exc |-> "-",
                  lines |-> draw_multiline_text(content.words, content.max_width)]
    /\ UNCHANGED <<botVars, url, content>>

SpecWrap == InitWrap /\ [][DrawTitle]_vars

RECURSIVE Flatten(_)
Flatten(lines) == IF lines = <<>> THEN <<>> ELSE Head(lines) \o Flatten(Tail(lines))

\* C18: the lines draw_multiline_text emits hold every token once and in order; no
\* line is empty; a token goes onto the current line exactly when the line with it
\* stays within the maximum width and otherwise starts a new line, so every line of
\* two or more tokens is within the maximum width.
C18_WordWrap ==
    result.kind = "lines" =>
        LET lines == result.lines
        IN  /\ Flatten(lines) = content.words
            /\ \A k \in 1..Len(lines) : lines[k] # <<>>
            /\ \A k \in 1..Len(lines) :
                Len(lines[k]) >= 2 => TextWidth(lines[k]) <= content.max_width
            /\ \A k \in 1..(Len(lines) - 1) :
                lines[k + 1] # <<>> =>
                    TextWidth(lines[k] \o <<lines[k + 1][1]>>) > content.max_width

-----------------------------------------------------------------------------
(* Two allowed users whose handlers interleave. A handler is a coroutine: it runs
   alone up to an await and other handlers run before it resumes. process_car_url
   stores the Car before it awaits send_car_media and stores the media ids after;
   handle_vat_click changes the price and generates the image before it awaits
   delete_user_messages, and pops the media ids and sends the photo after. *)

\* A user's entry of a dict: <<value>>, or <<>> when the key is absent.
Entry(m, u) == IF u \in DOMAIN m THEN <<m[u]>> ELSE <<>>

\* No handler of the user is suspended.
Idle == [busy |-> FALSE, run |-> NoRun, media |-> <<>>]

\* The handler of user u stops at its await: run is what it will have answered and
\* sent, media the entry of user_media_messages it will leave.
Suspend(u, run, media) ==
    content' = [content EXCEPT ![u] = [busy |-> TRUE, run |-> run, media |-> media]]

InitIsolation ==
    /\ USE_SELENIUM = TRUE
    /\ BotInit
    /\ url = <<>>
    /\ content = [u \in ALLOWED_USER_IDS |-> Idle]
    /\ result = NotRun

\* VAT applications followed per stored Car when two users act.
MaxVatEach == 1

\* The links the two users send: a full auto.ru page, a full drom.ru page and an
\* auto.ru page that cannot be fetched.
IsolationInputs ==
    {in \in BotUrlInputs :
        /\ in.selenium
        /\ in.parsed \in {ParseResponse(AUTO_URL_USED, AutoFull, TRUE),
                          ParseResponseDrom(DROM_URL, DromFull, TRUE),
                          ParseResponse(AUTO_URL_USED,
                                        [AutoFull EXCEPT !.fetched = FALSE], TRUE)}}

\* process_car_url up to "await send_car_media".
UrlBegin(u) ==
    \E in \in IsolationInputs, media_ok \in BOOLEAN :
        LET out == ProcessCarUrl(user_cars, user_media_messages, u, in.parsed, media_ok)
            stored == /\ u \in ALLOWED_USER_IDS
                      /\ in.parsed.kind = "car"
                      /\ in.parsed.car.images # <<>>
        IN  /\ ~content[u].busy
            /\ in.selenium = USE_SELENIUM
            /\ user_cars' = out.user_cars
            /\ extracted' = IF stored THEN Put(extracted, u, in.parsed.car.price)
                            ELSE extracted
            /\ vat_count' = IF stored THEN [vat_count EXCEPT ![u] = 0] ELSE vat_count
            /\ Suspend(u, [NoRun EXCEPT !.handler = in.handler, !.user = u,
                                        !.captcha = in.captcha, !.stored = stored,
                                        !.answers = out.answers, !.raised = out.raised],
                       Entry(out.user_media_messages, u))
            /\ UNCHANGED <<USE_SELENIUM, user_media_messages, last, url, result>>

\* handle_vat_click up to "await delete_user_messages".
VatBegin(u) ==
    \E vat_choice \in {"yes", "no"}, fault \in {"none", "photo"} :
        LET index == 0
            matches == PhotoMatchIndex + 1
            out == HandleVatClick(user_cars, user_media_messages, u, vat_choice,
                                  index, fault, matches)
            applied == u \in DOMAIN user_cars /\ vat_choice = "yes"
                       /\ VatPrice(user_cars[u].price).ok
        IN  /\ ~content[u].busy
            /\ vat_count[u] < MaxVatEach
            /\ user_cars' = out.user_cars
            /\ vat_count' = IF applied THEN [vat_count EXCEPT ![u] = @ + 1]
                            ELSE vat_count
            /\ Suspend(u, [NoRun EXCEPT !.handler = "vat", !.user = u,
                                        !.choice = vat_choice, !.index = index,
                                        !.fault = fault, !.matches = matches,
                                        !.answers = out.answers, !.offer = out.offer,
                                        !.raised = out.raised],
                       Entry(out.user_media_messages, u))
            /\ UNCHANGED <<USE_SELENIUM, user_media_messages, extracted, last, url,
                           result>>

\* The suspended handler of user u runs to its end: user_media_messages[user_id] =
\* media_message_ids in process_car_url, user_media_messages.pop(user_id, None) in
\* handle_vat_click, then the answers and the photo.
Resume(u) ==
    LET pending == content[u]
    IN  /\ pending.busy
        /\ user_media_messages' =
                IF pending.media = Entry(user_media_messages, u) THEN user_media_messages
                ELSE IF pending.media = <<>> THEN Pop(user_media_messages, u)
                ELSE Put(user_media_messages, u, pending.media[1])
        /\ last' = pending.run
        /\ content' = [content EXCEPT ![u] = Idle]
        /\ UNCHANGED <<USE_SELENIUM, user_cars, extracted, vat_count, url, result>>

NextIsolation ==
    \E u \in ALLOWED_USER_IDS :
        \/ UrlBegin(u)
        \/ VatBegin(u)
        \/ Resume(u)

SpecIsolation == InitIsolation /\ [][NextIsolation]_vars

\* A dict with the entries of every user but u removed.
Only(m, u) == [x \in DOMAIN m \cap {u} |-> m[x]]

\* C19: with two users acting in any interleaving, a step of one user's handler
\* leaves the other user's stored Listing and media ids as they were, gives the
\* same answers and offer as it would if the other user's entries did not exist,
\* and every offer sent is composed from the Listing stored for the user who
\* asked for it and goes to that user.
C19_UserIsolation ==
    [][ /\ \A b \in ALLOWED_USER_IDS :
            content'[b] = content[b] =>
                /\ Entry(user_cars', b) = Entry(user_cars, b)
                /\ Entry(user_media_messages', b) = Entry(user_media_messages, b)
        /\ \A a \in ALLOWED_USER_IDS :
            (~content[a].busy /\ content'[a].busy /\ content'[a].run.handler = "vat") =>
                LET r == content'[a].run
                    alone == HandleVatClick(Only(user_cars, a),
                                            Only(user_media_messages, a), a, r.choice,
                                            r.index, r.fault, r.matches)
                IN  /\ r.answers = alone.answers
                    /\ r.offer = alone.offer
                    /\ Entry(user_cars', a) = Entry(alone.user_cars, a)
        /\ (last' # last /\ last'.offer.sent) =>
                /\ last'.offer.to = last'.user
                /\ last'.user \in DOMAIN user_cars'
                /\ last'.offer.car = user_cars'[last'.user]
      ]_vars

\* C19 happens: alice got her offer while bob, with a Listing and media ids of his
\* own, has a VAT callback suspended.
C19_Witness ==
    /\ last.handler = "vat" /\ last.user = "alice" /\ last.offer.sent
    /\ "bob" \in DOMAIN user_cars
    /\ "bob" \in DOMAIN user_media_messages
    /\ content["bob"].busy /\ content["bob"].run.handler = "vat"
    /\ user_cars["bob"] # user_cars["alice"]

-----------------------------------------------------------------------------
(* The price a VAT-excluded offer shows *)

\* C20: every offer sent for the VAT-excluded choice carries, for its caption and
\* its image, the price exactly as it was extracted for the Listing, whatever
\* callbacks came before it.
C20_VatNoShowsExtractedPrice ==
    (last.handler = "vat" /\ last.choice = "no" /\ last.offer.sent)
        => /\ last.user \in DOMAIN extracted
           /\ last.offer.car.price = extracted[last.user]

-----------------------------------------------------------------------------
(* Keyboards. The message process_car_url answers with carries a keyboard, stays
   in the chat and can be pressed at any later time; a callback carries the user
   id and the button's index and nothing of the Listing the message was sent for. *)

\* Messages with a keyboard kept in the chat.
MaxMessages == 2

\* create_photo_keyboard: buttons photo_0 .. photo_(min(3, image_count) - 1).
create_photo_keyboard(image_count) ==
    [kind |-> "photo",
     photos |-> 0..((IF image_count < 3 THEN image_count ELSE 3) - 1),
     index |-> 0]

\* create_vat_keyboard: buttons vat_yes_<index>, vat_no_<index>, back_to_photos.
create_vat_keyboard(index) == [kind |-> "vat", photos |-> {}, index |-> index]

InitStale ==
    /\ USE_SELENIUM = TRUE
    /\ BotInit
    /\ url = <<>>
    /\ content = <<>>
    /\ result = NotRun

\* process_car_url for a link of alice; when it gets to message.answer the chat
\* has one more message, with the photo keyboard of the Car just parsed.
SendUrl ==
    \E in \in IsolationInputs, media_ok \in BOOLEAN :
        LET u == "alice"
            out == ProcessCarUrl(user_cars, user_media_messages, u, in.parsed, media_ok)
            stored == /\ u \in ALLOWED_USER_IDS
                      /\ in.parsed.kind = "car"
                      /\ in.parsed.car.images # <<>>
        IN  /\ Len(content) < MaxMessages
            /\ in.selenium = USE_SELENIUM
            /\ user_cars' = out.user_cars
            /\ user_media_messages' = out.user_media_messages
            /\ extracted' = IF stored THEN Put(extracted, u, in.parsed.car.price)
                            ELSE extracted
            /\ vat_count' = IF stored THEN [vat_count EXCEPT ![u] = 0] ELSE vat_count
            /\ last' = [NoRun EXCEPT !.handler = in.handler, !.user = u,
                                     !.captcha = in.captcha, !.stored = stored,
                                     !.answers = out.answers, !.raised = out.raised]
            /\ content' = IF out.answers = <<MSG_CAR_INFO>>
                          THEN Append(content,
                                      [car |-> in.parsed.car,
                                       keyboard |->
                                           create_photo_keyboard(Len(in.parsed.car.images))])
                          ELSE content
            /\ UNCHANGED <<USE_SELENIUM, url, result>>

\* A photo button of message k is pressed: handle_photo_click; when the index is
\* accepted the message gets the VAT keyboard for it.
PressPhoto ==
    \E k \in 1..Len(content) :
        \E index \in content[k].keyboard.photos :
            LET out == HandlePhotoClick(user_cars, user_media_messages, "alice", index)
            IN  /\ content[k].keyboard.kind = "photo"
                /\ last' = [NoRun EXCEPT !.handler = "photo", !.user = "alice",
                                         !.index = index, !.answers = out.answers]
                /\ content' = IF out.answers = <<ANSWER_SELECTED>>
                              THEN [content EXCEPT ![k].keyboard = create_vat_keyboard(index)]
                              ELSE content
                /\ result' = Returned(content[k].car)
                /\ UNCHANGED <<USE_SELENIUM, user_cars, user_media_messages, extracted,
                               vat_count, url>>

\* The back button of message k is pressed: handle_back_to_photos; the message
\* gets the photo keyboard of the Car stored now.
PressBack ==
    \E k \in 1..Len(content) :
        LET out == HandleBackToPhotos(user_cars, user_media_messages, "alice")
        IN  /\ content[k].keyboard.kind = "vat"
            /\ last' = [NoRun EXCEPT !.handler = "back", !.user = "alice",
                                     !.answers = out.answers]
            /\ content' = IF "alice" \in DOMAIN user_cars
                          THEN [content EXCEPT ![k].keyboard =
                                    create_photo_keyboard(Len(user_cars["alice"].images))]
                          ELSE content
            /\ result' = Returned(content[k].car)
            /\ UNCHANGED <<USE_SELENIUM, user_cars, user_media_messages, extracted,
                               vat_count, url>>

\* A VAT button of message k is pressed: handle_vat_click with the index of that
\* keyboard. delete_user_messages removes the pressed message before the photo is
\* sent. result keeps the Car message k was sent for.
PressVat ==
    \E k \in 1..Len(content), vat_choice \in {"yes", "no"}, fault \in {"none", "photo"} :
        LET u == "alice"
            index == content[k].keyboard.index
            matches == PhotoMatchIndex + 1
            out == HandleVatClick(user_cars, user_media_messages, u, vat_choice,
                                  index, fault, matches)
            applied == u \in DOMAIN user_cars /\ vat_choice = "yes"
                       /\ VatPrice(user_cars[u].price).ok
        IN  /\ content[k].keyboard.kind = "vat"
            /\ vat_count[u] < MaxVat
            /\ user_cars' = out.user_cars
            /\ user_media_messages' = out.user_media_messages
            /\ vat_count' = IF applied THEN [vat_count EXCEPT ![u] = @ + 1]
                            ELSE vat_count
            /\ last' = [NoRun EXCEPT !.handler = "vat", !.user = u,
                                     !.choice = vat_choice, !.index = index,
                                     !.fault = fault, !.matches = matches,
                                     !.answers = out.answers, !.offer = out.offer,
                                     !.raised = out.raised]
            /\ content' = IF out.offer.sent
                          THEN SubSeq(content, 1, k - 1)
                                   \o SubSeq(content, k + 1, Len(content))
                          ELSE content
            /\ result' = Returned(content[k].car)
            /\ UNCHANGED <<USE_SELENIUM, extracted, url>>

NextStale == SendUrl \/ PressPhoto \/ PressBack \/ PressVat

SpecStale == InitStale /\ [][NextStale]_vars

\* C21: an offer sent for a VAT button is composed from the Listing the pressed
\* message was sent for (its price possibly VAT-adjusted) and shows that Listing's
\* photo of the button's index, also when another link was sent in between.
C21_OfferFromClickedListing ==
    (last.handler = "vat" /\ last.offer.sent)
        => /\ [last.offer.car EXCEPT !.price = result.car.price] = result.car
           /\ last.index < Len(result.car.images)
           /\ last.offer.photo = result.car.images[last.index + 1]

-----------------------------------------------------------------------------
(* Access control *)

\* C22: user_cars, and with it the media ids and the extracted prices, hold
\* entries only for allowed users; a link from a user who is not allowed is
\* answered with the refusal alone, before any extraction, and stores nothing; and
\* no offer is ever sent for or to such a user, whatever callbacks they press.
C22_AccessControl ==
    /\ DOMAIN user_cars \subseteq ALLOWED_USER_IDS
    /\ DOMAIN user_media_messages \subseteq ALLOWED_USER_IDS
    /\ DOMAIN extracted \subseteq ALLOWED_USER_IDS
    /\ (last.handler \in {"auto", "drom"} /\ last.user \notin ALLOWED_USER_IDS)
            => (last.answers = <<MSG_DENIED>> /\ ~last.stored)
    /\ (last.handler # "-" /\ last.user \notin ALLOWED_USER_IDS) => ~last.offer.sent
    /\ last.offer.sent => last.offer.to \in ALLOWED_USER_IDS

\* C22 happens: mallory, who is not allowed, sent a link of a page that parses and
\* was refused, while alice has a Listing stored.
C22_Witness ==
    /\ last.handler \in {"auto", "drom"}
    /\ last.user = "mallory"
    /\ ~last.captcha
    /\ last.answers = <<MSG_DENIED>>
    /\ "alice" \in DOMAIN user_cars

\* C22 happens for callbacks also: mallory pressed a VAT button and got no offer.
C22_CallbackRefused ==
    /\ last.handler = "vat"
    /\ last.user = "mallory"
    /\ last.answers = <<ALERT_NO_CAR>>

=============================================================================
